---- MODULE Spec2Model ----
(***************************************************************************)
(* Model of dep/util.py of ep-stan: invert_normal_params, _cv_estim and    *)
(* cv_moments.  Numbers are exact rationals extended with the IEEE special *)
(* values NaN and +/-inf, so that a division by zero behaves as in numpy.  *)
(* Arrays are sequences; a matrix is a sequence of rows.                   *)
(***************************************************************************)
EXTENDS Integers, Sequences, FiniteSets, TLC

VARIABLES pc, args, heap, pre, ret

vars == <<pc, args, heap, pre, ret>>

(***************************************************************************)
(* Extended rational arithmetic (float64 without rounding).                *)
(* [n, d] with d > 0 is n/d in lowest terms; d = 0 encodes NaN (n = 0)     *)
(* and +/-inf (n = +/-1).                                                  *)
(***************************************************************************)
Abs(x) == IF x < 0 THEN -x ELSE x

Sgn(x) == IF x < 0 THEN -1 ELSE IF x > 0 THEN 1 ELSE 0

RECURSIVE GCD(_, _)
GCD(a, b) == IF b = 0 THEN a ELSE GCD(b, a % b)

NaN == [n |-> 0, d |-> 0]

Inf(s) == [n |-> s, d |-> 0]

Norm(n, d) ==
  LET g == GCD(Abs(n), Abs(d))
  IN  [n |-> Sgn(d) * (n \div g), d |-> Abs(d) \div g]

Q(n, d) == Norm(n, d)

I(x) == [n |-> x, d |-> 1]

Zero == I(0)

One == I(1)

IsNaN(x) == x.d = 0 /\ x.n = 0

IsFinite(x) == x.d > 0

QNeg(x) == [n |-> -x.n, d |-> x.d]

QAdd(x, y) ==
  IF IsNaN(x) \/ IsNaN(y) THEN NaN
  ELSE IF x.d = 0 /\ y.d = 0 THEN (IF x.n = y.n THEN x ELSE NaN)
  ELSE IF x.d = 0 THEN x
  ELSE IF y.d = 0 THEN y
  ELSE LET g == GCD(x.d, y.d)
       IN  Norm(x.n * (y.d \div g) + y.n * (x.d \div g), (x.d \div g) * y.d)

QSub(x, y) == QAdd(x, QNeg(y))

\* p/q * r/s for q, s > 0, cancelling before multiplying.
MulFrac(p, q, r, s) ==
  LET g1 == GCD(Abs(p), s)
      g2 == GCD(Abs(r), q)
  IN  Norm((p \div g1) * (r \div g2), (q \div g2) * (s \div g1))

QMul(x, y) ==
  IF IsNaN(x) \/ IsNaN(y) THEN NaN
  ELSE IF x.d = 0 \/ y.d = 0
       THEN (IF x.n = 0 \/ y.n = 0 THEN NaN ELSE Inf(Sgn(x.n) * Sgn(y.n)))
  ELSE MulFrac(x.n, x.d, y.n, y.d)

QDiv(x, y) ==
  IF IsNaN(x) \/ IsNaN(y) THEN NaN
  ELSE IF y.d = 0 THEN (IF x.d = 0 THEN NaN ELSE Zero)
  ELSE IF y.n = 0 THEN (IF x.n = 0 THEN NaN ELSE Inf(Sgn(x.n)))
  ELSE IF x.d = 0 THEN Inf(Sgn(x.n) * Sgn(y.n))
  ELSE MulFrac(x.n * Sgn(y.n), x.d, y.d, Abs(y.n))

\* x < y as IEEE compares: false whenever an operand is NaN.
QLt(x, y) ==
  IF IsNaN(x) \/ IsNaN(y) THEN FALSE
  ELSE IF x.d = 0 /\ y.d = 0 THEN x.n < y.n
  ELSE IF x.d = 0 THEN x.n < 0
  ELSE IF y.d = 0 THEN y.n > 0
  ELSE LET g == GCD(x.d, y.d)
       IN  x.n * (y.d \div g) < y.n * (x.d \div g)

QLe(x, y) == ~IsNaN(x) /\ ~IsNaN(y) /\ ~QLt(y, x)

QAbs(x) == [n |-> Abs(x.n), d |-> x.d]

IsSquareInt(k) == k >= 0 /\ \E r \in 0..k : r * r = k

ISqrt(k) == CHOOSE r \in 0..k : r * r = k

IsSquareQ(x) == IsFinite(x) /\ IsSquareInt(x.n) /\ IsSquareInt(x.d)

\* sqrt on the rationals whose root is rational (the inputs are drawn so
\* that no other argument occurs).
QSqrt(x) == [n |-> ISqrt(x.n), d |-> ISqrt(x.d)]

(***************************************************************************)
(* Vectors and matrices.                                                   *)
(***************************************************************************)
\* The sequence s as an explicit tuple (every element evaluated once).
AsTuple(s) == s \o <<>>

RECURSIVE SumTo(_, _)
SumTo(s, k) == IF k = 0 THEN Zero ELSE QAdd(SumTo(s, k - 1), s[k])

\* Sum of a sequence of numbers, accumulated left to right.
SumSeq(s) == SumTo(s, Len(s))

NCols(M) == IF Len(M) = 0 THEN 0 ELSE Len(M[1])

Transpose(M) ==
  AsTuple([j \in 1..NCols(M) |-> AsTuple([i \in 1..Len(M) |-> M[i][j]])])

Dot(u, v) == SumSeq(AsTuple([k \in 1..Len(u) |-> QMul(u[k], v[k])]))

Col(M, j) == AsTuple([i \in 1..Len(M) |-> M[i][j]])

MatMul(X, Y) ==
  AsTuple([i \in 1..Len(X) |->
    AsTuple([j \in 1..NCols(Y) |-> Dot(X[i], Col(Y, j))])])

Identity(n) ==
  AsTuple([i \in 1..n |->
    AsTuple([j \in 1..n |-> IF i = j THEN One ELSE Zero])])

SetMin(S) == CHOOSE x \in S : \A y \in S : x <= y

\* Gauss-Jordan elimination of the augmented rows M (n rows) from column k
\* on; ok is FALSE when a column has no pivot (the matrix is singular).
RECURSIVE GaussJordan(_, _)
GaussJordan(M, k) ==
  LET n == Len(M)
  IN  IF k > n THEN [ok |-> TRUE, m |-> M]
      ELSE LET cand == {p \in k..n : M[p][k] # Zero}
           IN  IF cand = {} THEN [ok |-> FALSE, m |-> M]
               ELSE LET p   == SetMin(cand)
                        S   == [M EXCEPT ![k] = M[p], ![p] = M[k]]
                        piv == S[k][k]
                        rk  == AsTuple([j \in 1..Len(S[k]) |-> QDiv(S[k][j], piv)])
                        R   == AsTuple([i \in 1..n |->
                                 IF i = k THEN rk
                                 ELSE AsTuple([j \in 1..Len(S[i]) |->
                                        QSub(S[i][j], QMul(S[i][k], rk[j]))])])
                    IN  GaussJordan(R, k + 1)

\* scipy.linalg.solve: the solution X of M X = B (B a matrix with Len(M)
\* rows); ok is FALSE when M is singular (LinAlgError).
LinSolve(M, B) ==
  LET n   == Len(M)
      aug == AsTuple([i \in 1..n |-> M[i] \o B[i]])
      r   == GaussJordan(aug, 1)
  IN  [ok |-> r.ok,
       x  |-> AsTuple([i \in 1..n |-> SubSeq(r.m[i], n + 1, n + NCols(B))])]

\* The upper triangle of M, zero below the diagonal.
Triu(M) ==
  AsTuple([i \in 1..Len(M) |->
    AsTuple([j \in 1..Len(M) |-> IF j >= i THEN M[i][j] ELSE Zero])])

\* LAPACK potrf (upper, unblocked) run in place on a from column j on, as
\* scipy.linalg.cho_factor calls it with clean=False: info = j > 0 when the
\* j-th pivot is not positive; the strict lower triangle is left as it was.
RECURSIVE Potrf(_, _)
Potrf(a, j) ==
  LET n == Len(a)
  IN  IF j > n THEN [info |-> 0, a |-> a]
      ELSE LET ajj == QSub(a[j][j],
                           SumSeq(AsTuple([k \in 1..(j-1) |->
                                    QMul(a[k][j], a[k][j])])))
           IN  IF ~QLt(Zero, ajj)
               THEN [info |-> j, a |-> [a EXCEPT ![j][j] = ajj]]
               ELSE LET r   == QSqrt(ajj)
                        row == AsTuple([i \in 1..n |->
                                 IF i < j THEN a[j][i]
                                 ELSE IF i = j THEN r
                                 ELSE QDiv(QSub(a[j][i],
                                        SumSeq(AsTuple([k \in 1..(j-1) |->
                                                 QMul(a[k][j], a[k][i])]))), r)])
                    IN  Potrf([a EXCEPT ![j] = row], j + 1)

\* Forward substitution: y with U^T y = b, for the upper triangle U of c.
RECURSIVE FwdSub(_, _, _)
FwdSub(c, b, y) ==
  LET i == Len(y) + 1
  IN  IF i > Len(b) THEN y
      ELSE FwdSub(c, b, Append(y,
             QDiv(QSub(b[i], SumSeq(AsTuple([k \in 1..(i-1) |->
                                      QMul(c[k][i], y[k])]))),
                  c[i][i])))

\* Back substitution: x with U x = y; x holds the entries i+1..n already
\* solved, in order.
RECURSIVE BackSub(_, _, _)
BackSub(c, y, x) ==
  LET n == Len(y)
      i == n - Len(x)
  IN  IF i < 1 THEN x
      ELSE BackSub(c, y,
             <<QDiv(QSub(y[i], SumSeq(AsTuple([k \in 1..Len(x) |->
                                         QMul(c[i][i + k], x[k])]))),
                    c[i][i])>> \o x)

\* Mutant of ChoSolve: the back substitution is left out.
ChoSolve_FwdOnly(c, b) == FwdSub(c, b, <<>>)

\* scipy.linalg.cho_solve((c, False), b): x with (U^T U) x = b.
ChoSolve(c, b) == BackSub(c, FwdSub(c, b, <<>>), <<>>)

\* LAPACK potri on the upper factor in c: info > 0 when a diagonal entry of
\* the factor is zero; otherwise the upper triangle of (U^T U)^-1 is written
\* over the upper triangle of c, the strict lower triangle is left alone.
Potri(c) ==
  LET n    == Len(c)
      U    == Triu(c)
      zero == {i \in 1..n : c[i][i] = Zero}
  IN  IF zero # {} THEN [info |-> SetMin(zero), c |-> c]
      ELSE LET inv == LinSolve(MatMul(Transpose(U), U), Identity(n)).x
           IN  [info |-> 0,
                c |-> AsTuple([i \in 1..n |-> AsTuple([j \in 1..n |->
                        IF j >= i THEN inv[i][j] ELSE c[i][j]])])]

\* cython_util.copy_triu_to_tril: mirror the upper triangle into the lower.
copy_triu_to_tril(M) ==
  AsTuple([i \in 1..Len(M) |-> AsTuple([j \in 1..Len(M) |->
    IF j >= i THEN M[i][j] ELSE M[j][i]])])

(***************************************************************************)
(* Arrays.  heap holds every array of a call: the caller's A and b, the    *)
(* caller-supplied output buffers bufA and bufB, and newA / newb, the      *)
(* arrays the call allocates.  A matrix has a memory layout: "F" (column   *)
(* major), "C" (row major) or "N" (not contiguous).  An absent array has   *)
(* the empty value.                                                        *)
(***************************************************************************)
None == <<>>

NoMat == [val |-> None, layout |-> "F"]

\* numpy flags['FARRAY']: F-contiguous and not C-contiguous; an array with
\* one row and one column is contiguous both ways, so the flag is off.
FARRAY(layout, d) == layout = "F" /\ d > 1

\* Layout of the transposed view arr.T.
LayoutT(layout) == IF layout = "F" THEN "C" ELSE IF layout = "C" THEN "F" ELSE "N"

\* The value seen through a view of the array at loc (transposed when tr).
ReadMat(h, loc, tr) == IF tr THEN Transpose(h[loc].val) ELSE h[loc].val

\* Writing v through that view.
WriteMat(h, loc, tr, v) ==
  [h EXCEPT ![loc].val = IF tr THEN Transpose(v) ELSE v]

\* The LinAlgError of a failed cho_factor, of dpotri (line 100) and of a
\* singular system in linalg.solve.
NotPosDef == "LinAlgError: not positive definite"

PotriFailed == "LinAlgError: dpotri failed"

Singular == "LinAlgError: singular matrix"

Raised(h, status, ran) ==
  [heap |-> h, status |-> status, out_A |-> None, out_b |-> None,
   loc_A |-> "none", loc_b |-> "none", ran |-> ran]

\* Mutant of ProcessOutA: with out_A=None the call works on A itself.
ProcessOutA_Alias(h, out_A) ==
  IF out_A \in {"in_place", "None"} THEN [h |-> h, loc |-> "A"]
  ELSE [h |-> [h EXCEPT !.bufA.val = h.A.val], loc |-> "bufA"]

\* Lines 68-73: where the matrix is worked on.  'in_place' works on A itself,
\* None on a fresh F-ordered copy, a buffer receives a copy of A (np.copyto).
ProcessOutA(h, out_A) ==
  IF out_A = "in_place" THEN [h |-> h, loc |-> "A"]
  ELSE IF out_A = "None"
       THEN [h   |-> [h EXCEPT !.newA = [val |-> h.A.val, layout |-> "F"]],
             loc |-> "newA"]
  ELSE [h |-> [h EXCEPT !.bufA.val = h.A.val], loc |-> "bufA"]

\* Lines 79-87: where the vector is worked on.
ProcessOutB(h, out_b) ==
  IF h.b = None THEN [h |-> h, loc |-> "none"]
  ELSE IF out_b = "in_place" THEN [h |-> h, loc |-> "b"]
  ELSE IF out_b = "None" THEN [h |-> [h EXCEPT !.newb = h.b], loc |-> "newb"]
  ELSE [h |-> [h EXCEPT !.bufB = h.b], loc |-> "bufB"]

\* Line 74: the call goes on with the transposed view out_A.T unless the
\* array chosen by lines 68-73 is FARRAY.
Transposed(pa) == ~FARRAY(pa.h[pa.loc].layout, Len(pa.h.A.val))

\* Lines 77-78: the transposed view is not FARRAY either and has more than
\* one row.
Inappropriate(pa) ==
  /\ Transposed(pa)
  /\ ~FARRAY(LayoutT(pa.h[pa.loc].layout), Len(pa.h.A.val))
  /\ Len(pa.h.A.val) > 1

\* Lines 90-94: cho_factor in place, or the matrix taken as the factor.
Factorize(w, cho_form) ==
  IF cho_form THEN [info |-> 0, a |-> w] ELSE Potrf(w, 1)

\* Line 104: return out_A, out_b.
Returned(h, w, locA, locb, ran) ==
  [heap |-> h, status |-> "returned", out_A |-> w,
   out_b |-> IF locb = "none" THEN None ELSE h[locb],
   loc_A |-> locA, loc_b |-> locb, ran |-> ran]

\* Lines 97-104: dpotri on the factor and copy_triu_to_tril, on the heap h
\* the solve left.
InvertFactor(h, locA, locb, tr, ran, inv) ==
  IF inv.info # 0
  THEN Raised(WriteMat(h, locA, tr, inv.c), PotriFailed, Append(ran, "potri"))
  ELSE Returned(WriteMat(h, locA, tr, copy_triu_to_tril(inv.c)),
                copy_triu_to_tril(inv.c), locA, locb,
                ran \o <<"potri", "copy_triu_to_tril">>)

\* Lines 90-104 on the working arrays: factorization fac of the matrix at
\* locA, the solve on the vector at locb, the inversion.
InvertArrays(h, locA, locb, tr, cho_form, fac) ==
  LET h3   == IF cho_form THEN h ELSE WriteMat(h, locA, tr, fac.a)
      ran3 == IF cho_form THEN <<>> ELSE <<"cho_factor">>
  IN  IF fac.info # 0 THEN Raised(h3, NotPosDef, ran3)
      ELSE InvertFactor(
             IF locb = "none" THEN h3
             ELSE [h3 EXCEPT ![locb] = ChoSolve(fac.a, h3[locb])],
             locA, locb, tr,
             IF locb = "none" THEN ran3 ELSE Append(ran3, "cho_solve"),
             Potri(fac.a))

\* Lines 79-104, once the vector has its place (pb).
InvertWith(pb, locA, tr, cho_form) ==
  InvertArrays(pb.h, locA, pb.loc, tr, cho_form,
               Factorize(ReadMat(pb.h, locA, tr), cho_form))

\* Mutant of InvertAt: the vector is given its place before the layout of
\* the matrix is checked.
InvertAt_LateCheck(pa, out_b, cho_form) ==
  IF Inappropriate(pa)
  THEN Raised(ProcessOutB(pa.h, out_b).h, "ValueError", <<>>)
  ELSE InvertWith(ProcessOutB(pa.h, out_b), pa.loc, Transposed(pa), cho_form)

\* Lines 74-104, once the matrix has its place (pa).
InvertAt(pa, out_b, cho_form) ==
  IF Inappropriate(pa) THEN Raised(pa.h, "ValueError", <<>>)
  ELSE InvertWith(ProcessOutB(pa.h, out_b), pa.loc, Transposed(pa), cho_form)

\* invert_normal_params(A, b, out_A, out_b, cho_form) on the arrays of h;
\* out_A and out_b are "in_place", "None" or "buffer" (bufA / bufB).  ran
\* lists the numerical routines that were run, in order.
invert_normal_params(h, out_A, out_b, cho_form) ==
  InvertAt(ProcessOutA(h, out_A), out_b, cho_form)

(***************************************************************************)
(* Positive definiteness by Sylvester's criterion, used to draw inputs and *)
(* to state properties independently of the factorization.                 *)
(***************************************************************************)
Minor(M, r, c) ==
  AsTuple([i \in 1..(Len(M) - 1) |-> AsTuple([j \in 1..(Len(M) - 1) |->
     M[IF i < r THEN i ELSE i + 1][IF j < c THEN j ELSE j + 1]])])

RECURSIVE Det(_)
Det(M) ==
  IF Len(M) = 0 THEN One
  ELSE IF Len(M) = 1 THEN M[1][1]
  ELSE SumSeq(AsTuple([j \in 1..Len(M) |->
         QMul(IF j % 2 = 1 THEN M[1][j] ELSE QNeg(M[1][j]), Det(Minor(M, 1, j)))]))

Lead(M, k) == AsTuple([i \in 1..k |-> SubSeq(M[i], 1, k)])

IsPosDef(M) == \A k \in 1..Len(M) : QLt(Zero, Det(Lead(M, k)))

\* The square of the k-th Cholesky pivot of M.
PivotSq(M, k) == QDiv(Det(Lead(M, k)), Det(Lead(M, k - 1)))

\* Every pivot the factorization takes the root of has a rational root.
ExactCholesky(M) ==
  \A k \in 1..Len(M) :
    (\A j \in 1..(k - 1) : QLt(Zero, PivotSq(M, j)))
      => (~QLt(Zero, PivotSq(M, k)) \/ IsSquareQ(PivotSq(M, k)))

Inverse(M) == LinSolve(M, Identity(Len(M))).x

MatVec(M, v) == AsTuple([i \in 1..Len(M) |-> Dot(M[i], v)])

(***************************************************************************)
(* Calls of invert_normal_params.                                          *)
(***************************************************************************)
Dims == {1, 2}

Layouts == {"F", "C", "N"}

Modes == {"in_place", "None", "buffer"}

DiagVals == {0, 1, 25}

OffVals == {-3, 0, 4}

\* Symmetric d x d matrices with small integer entries.
SymMats(d) ==
  IF d = 1 THEN {<<<<I(a)>>>> : a \in DiagVals}
  ELSE {<<<<I(a), I(c)>>, <<I(c), I(e)>>>> :
          a \in DiagVals, e \in DiagVals, c \in OffVals}

\* The matrices whose factorization, and that of their inverse, is exact.
ExactMats(d) ==
  {M \in SymMats(d) :
     ExactCholesky(M) /\ (IsPosDef(M) => ExactCholesky(Inverse(M)))}

\* Factors handed in with cho_form=True: positive diagonal.
FactorMats(d) == {M \in SymMats(d) : \A i \in 1..d : M[i][i].n > 0}

BSeeds == {-1, 1}

Vecs(d) == {AsTuple([i \in 1..d |-> I(v + i)]) : v \in BSeeds}

\* What a caller-supplied output buffer holds before the call.
Stale == I(7)

StaleMat(d) == AsTuple([i \in 1..d |-> AsTuple([j \in 1..d |-> Stale])])

StaleVec(d) == AsTuple([i \in 1..d |-> Stale])

NoRet ==
  [status |-> "none", out_A |-> None, out_b |-> None, loc_A |-> "none",
   loc_b |-> "none", ran |-> <<>>]

RetOf(r) ==
  [status |-> r.status, out_A |-> r.out_A, out_b |-> r.out_b,
   loc_A |-> r.loc_A, loc_b |-> r.loc_b, ran |-> r.ran]

InitInv ==
  \E d \in Dims, cho_form \in BOOLEAN, out_A \in Modes, out_b \in Modes :
    \E A \in (IF cho_form THEN FactorMats(d) ELSE ExactMats(d)),
       layA \in Layouts, b \in Vecs(d) \cup {None},
       layBuf \in (IF out_A = "buffer" THEN Layouts ELSE {"F"}) :
      /\ pc = "start"
      /\ args = [fn |-> "invert_normal_params", out_A |-> out_A, out_b |-> out_b,
                 cho_form |-> cho_form]
      /\ heap = [A    |-> [val |-> A, layout |-> layA],
                 b    |-> b,
                 bufA |-> IF out_A = "buffer"
                          THEN [val |-> StaleMat(d), layout |-> layBuf] ELSE NoMat,
                 bufB |-> IF out_b = "buffer" THEN StaleVec(d) ELSE None,
                 newA |-> NoMat,
                 newb |-> None]
      /\ pre = heap
      /\ ret = NoRet

\* One call of invert_normal_params on the caller's arrays.
Invert ==
  /\ pc = "start"
  /\ args.fn = "invert_normal_params"
  /\ \E r \in {invert_normal_params(heap, args.out_A, args.out_b,
                                      args.cho_form)} :
         /\ heap' = r.heap
         /\ ret' = RetOf(r)
  /\ pc' = "done"
  /\ UNCHANGED <<args, pre>>

\* The layout of the array a successful call returned.
RetLayout(h, r) ==
  IF FARRAY(h[r.loc_A].layout, Len(r.out_A)) THEN h[r.loc_A].layout
  ELSE LayoutT(h[r.loc_A].layout)

\* The caller hands the returned pair to invert_normal_params again, with the
\* default output arguments.
Reinvert ==
  /\ pc = "done"
  /\ args.fn = "invert_normal_params"
  /\ ~args.cho_form
  /\ ret.status = "returned"
  /\ LET h == [A    |-> [val |-> ret.out_A, layout |-> RetLayout(heap, ret)],
               b    |-> ret.out_b,
               bufA |-> NoMat, bufB |-> None, newA |-> NoMat, newb |-> None]
     IN  \E r \in {invert_normal_params(h, "None", "None", FALSE)} :
           ret' = RetOf(r)
  /\ pc' = "again"
  /\ UNCHANGED <<args, heap, pre>>

NextInv == Invert \/ Reinvert

SpecInv == InitInv /\ [][NextInv]_vars

(***************************************************************************)
(* _cv_estim.  An optional number is <<>> (None) or <<x>>.  A coefficient  *)
(* array a is a matrix: k x k in multiple mode, one row of k in single     *)
(* mode.                                                                   *)
(***************************************************************************)
\* Python truth value of an optional number: None and 0 are false.
Truthy(o) == o # None /\ o[1] # Zero

\* M * c, elementwise.
MatScale(M, c) ==
  AsTuple([i \in 1..Len(M) |->
    AsTuple([j \in 1..Len(M[i]) |-> QMul(M[i][j], c)])])

\* np.clip(x, lo, hi) = minimum(maximum(x, lo), hi); NaN stays NaN.
Clip(x, lo, hi) ==
  IF IsNaN(x) THEN NaN
  ELSE LET m == IF QLt(x, lo) THEN lo ELSE x
       IN  IF QLt(hi, m) THEN hi ELSE m

\* np.clip(M, lo, hi), elementwise.
MatClip(M, lo, hi) ==
  AsTuple([i \in 1..Len(M) |->
    AsTuple([j \in 1..Len(M[i]) |-> Clip(M[i][j], lo, hi)])])

\* The names _cv_estim can resolve: its parameters and locals, and the
\* names bound at module level in util.py.
CvEstimLocals ==
  {"f", "hc", "divide_f_hat", "opt", "ddof_f", "out", "n", "d", "fc", "var_h",
   "cov_fh", "a", "f_hat"}

ModuleGlobals ==
  {"os", "pickle", "np", "linalg", "StanModel", "copy_triu_to_tril",
   "auto_outer", "ravel_triu", "unravel_triu", "dpotri_routine", "_LOG_2PI",
   "invert_normal_params", "_cv_estim", "cv_moments", "get_last_sample",
   "load_stan", "suppress_stdout"}

Resolves(name) == name \in CvEstimLocals \cup ModuleGlobals

\* Lines 116-126: the regression coefficient.  Multiple mode solves
\* (hc^T hc (n-1)) a = (fc^T hc)^T n and fails when the system is singular;
\* single mode divides elementwise, with numpy's result for a zero divisor.
Coefficient(fc, hc, n, multiple_cv) ==
  LET k == NCols(hc)
  IN  IF multiple_cv
      THEN LET var_h  == MatScale(Transpose(MatMul(Transpose(hc), hc)),
                                  I(n - 1))
               cov_fh == MatScale(Transpose(MatMul(Transpose(fc), hc)),
                                  I(n))
               sol    == LinSolve(var_h, cov_fh)
           IN  [ok |-> sol.ok, a |-> sol.x]
      ELSE LET var_h  == AsTuple([j \in 1..k |-> SumSeq(AsTuple(
                           [s \in 1..n |-> QMul(hc[s][j], hc[s][j])]))])
               cov_fh == AsTuple([j \in 1..k |-> SumSeq(AsTuple(
                           [s \in 1..n |-> QMul(fc[s][j], hc[s][j])]))])
           IN  [ok |-> TRUE,
                a  |-> <<AsTuple([j \in 1..k |->
                           QDiv(QMul(cov_fh[j], I(n)),
                                QMul(var_h[j], I(n - 1)))])>>]

\* Lines 132-136: hc . a in multiple mode, hc * a elementwise in single mode.
FHat(hc, a, multiple_cv) ==
  IF multiple_cv THEN MatMul(hc, a)
  ELSE AsTuple([s \in 1..Len(hc) |-> AsTuple([j \in 1..NCols(hc) |->
         QMul(hc[s][j], a[1][j])])])

\* Mutant of FinalEstimate: the sums are divided whatever divide_f_hat is.
FinalEstimate_AlwaysDivide(sums, divide_f_hat, nd) ==
  AsTuple([j \in 1..Len(sums) |-> QDiv(sums[j], nd)])

\* Lines 138-140: the column sums, divided by n - ddof_f when divide_f_hat.
FinalEstimate(sums, divide_f_hat, nd) ==
  IF divide_f_hat THEN AsTuple([j \in 1..Len(sums) |-> QDiv(sums[j], nd)])
  ELSE sums

\* X - v, the vector v subtracted from every row of X.
SubRow(X, v) ==
  AsTuple([s \in 1..Len(X) |->
    AsTuple([j \in 1..NCols(X) |-> QSub(X[s][j], v[j])])])

\* Lines 113-114: the column sums of f divided by n - ddof_f.
ColMeansBy(f, nd) ==
  AsTuple([j \in 1..NCols(f) |-> QDiv(SumSeq(Col(f, j)), nd)])

\* Lines 127-131: regulate_a, then max_a, applied to the coefficients.
Regulate(a, opt) ==
  LET a1 == IF Truthy(opt.regulate_a) THEN MatScale(a, opt.regulate_a[1])
            ELSE a
  IN  IF Truthy(opt.max_a)
      THEN MatClip(a1, QNeg(opt.max_a[1]), opt.max_a[1])
      ELSE a1

\* Lines 137-138: the column sums of f - f_hat.
ResidualSums(f, f_hat) ==
  AsTuple([j \in 1..NCols(f) |->
    SumSeq(AsTuple([s \in 1..Len(f) |-> QSub(f[s][j], f_hat[s][j])]))])

\* Lines 132-141, with the coefficients a.
EstimateWith(f, hc, divide_f_hat, opt, nd, a, a_raw) ==
  [status |-> "returned",
   out    |-> FinalEstimate(ResidualSums(f, FHat(hc, a, opt.multiple_cv)),
                            divide_f_hat, nd),
   a      |-> a,
   a_raw  |-> a_raw]

\* Lines 116-141, with out holding out0 and the raw coefficients co.
EstimateFrom(f, hc, divide_f_hat, opt, nd, out0, co) ==
  IF ~co.ok
  THEN [status |-> Singular, out |-> out0, a |-> None, a_raw |-> None]
  ELSE IF Truthy(opt.regulate_a) /\ ~Resolves("regulate_a")
  THEN [status |-> "NameError", out |-> out0, a |-> None, a_raw |-> co.a]
  ELSE IF Truthy(opt.max_a) /\ ~Resolves("max_a")
  THEN [status |-> "NameError", out |-> out0, a |-> None, a_raw |-> co.a]
  ELSE EstimateWith(f, hc, divide_f_hat, opt, nd, Regulate(co.a, opt), co.a)

\* Lines 115-141, with out holding out0.
EstimateAround(f, hc, divide_f_hat, opt, nd, out0) ==
  EstimateFrom(f, hc, divide_f_hat, opt, nd, out0,
               Coefficient(SubRow(f, out0), hc, Len(f), opt.multiple_cv))

\* _cv_estim(f, hc, divide_f_hat, opt, ddof_f): out is what the out array
\* holds when the call ends, a the returned coefficients, a_raw the
\* coefficients before regulate_a and max_a were applied.
_cv_estim(f, hc, divide_f_hat, opt, ddof_f) ==
  EstimateAround(f, hc, divide_f_hat, opt, I(Len(f) - ddof_f),
                 ColMeansBy(f, I(Len(f) - ddof_f)))

(***************************************************************************)
(* cv_moments.                                                             *)
(***************************************************************************)
\* np.finfo(np.float64).eps is 2^-EpsBits.
EpsBits == 52

\* The smallest positive float64 is 2^-MinExp; exp of anything below
\* underflows to 0.
MinExp == 1074

RECURSIVE Pow2(_)
Pow2(k) == IF k = 0 THEN 1 ELSE 2 * Pow2(k - 1)

\* np.exp of a log-density difference given in units of ln 2.
Exp(k) ==
  IF k < -MinExp THEN Zero
  ELSE IF k >= 0 THEN I(Pow2(k)) ELSE Q(1, Pow2(-k))

\* x < 2^-k, for x >= 0.
RECURSIVE BelowPow2(_, _)
BelowPow2(x, k) ==
  IF ~QLt(x, One) THEN FALSE
  ELSE IF k = 0 THEN TRUE
  ELSE BelowPow2(QMul(x, I(2)), k - 1)

\* Mutant of AllBelowEps: the comparison reversed (pr > eps).
AllBelowEps_Reversed(pr) ==
  \A s \in 1..Len(pr) : ~BelowPow2(pr[s], EpsBits)

\* Line 236: np.all(pr < eps).
AllBelowEps(pr) == \A s \in 1..Len(pr) : BelowPow2(pr[s], EpsBits)

\* Mutant of D2: the halving shift is left out.
D2_NotHalved(d) == d * (d + 1)

\* Lines 262-265: d+1 choose 2.
D2(d) == IF d % 2 = 0 THEN (d \div 2) * (d + 1) ELSE ((d + 1) \div 2) * d

\* The index pairs (i, j), i <= j, of the upper triangle in row-major order.
TriPairs(d) ==
  LET S == {p \in (1..d) \X (1..d) : p[1] <= p[2]}
      key(p) == (p[1] - 1) * d + p[2]
  IN  AsTuple([k \in 1..Cardinality(S) |->
        CHOOSE p \in S : Cardinality({q \in S : key(q) < key(p)}) = k - 1])

\* cython_util.auto_outer(X, out): row s of out receives the packed upper
\* triangle of the outer product of row s of X with itself; out has cols
\* columns, those past the packed length are not written.
auto_outer(X, cols) ==
  LET tp == TriPairs(NCols(X))
  IN  AsTuple([s \in 1..Len(X) |-> AsTuple([k \in 1..cols |->
        IF k <= Len(tp) THEN QMul(X[s][tp[k][1]], X[s][tp[k][2]]) ELSE Zero])])

\* cython_util.ravel_triu(M, out): the packed upper triangle of M.
ravel_triu(M, cols) ==
  LET tp == TriPairs(Len(M))
  IN  AsTuple([k \in 1..cols |->
        IF k <= Len(tp) THEN M[tp[k][1]][tp[k][2]] ELSE Zero])

\* cython_util.unravel_triu(v, M): the symmetric matrix with packed upper
\* triangle v.
unravel_triu(v, d) ==
  LET tp == TriPairs(d)
      pos(i, j) == CHOOSE k \in 1..Len(tp) : tp[k] = <<i, j>>
  IN  AsTuple([i \in 1..d |-> AsTuple([j \in 1..d |->
        IF i <= j THEN v[pos(i, j)] ELSE v[pos(j, i)]])])

ColMeans(X) ==
  AsTuple([j \in 1..NCols(X) |-> QDiv(SumSeq(Col(X, j)), I(Len(X)))])

\* Mutant of NeedCho: ldet_Q_tilde is not looked at.
NeedCho_NoLdet(S_tilde, m_tilde, has_ldet) ==
  S_tilde = None \/ m_tilde = None

\* Line 215: Q_tilde is factorized unless S_tilde, m_tilde and ldet_Q_tilde
\* are all supplied.
NeedCho(S_tilde, m_tilde, has_ldet) ==
  S_tilde = None \/ m_tilde = None \/ ~has_ldet

CvRaised(samp, status) ==
  [samp |-> samp, status |-> status, path |-> "none", S_hat |-> None,
   m_hat |-> None, a_S |-> None, a_m |-> None, a_scalar |-> FALSE,
   a_S_raw |-> None, a_m_raw |-> None, d2 |-> 0, len_d2vec |-> 0,
   cols_hc |-> 0, cols_f |-> 0]

\* Lines 217-219: S_tilde, m_tilde from invert_normal_params.
RefFromInverse(inv) ==
  [status |-> inv.status, S_t |-> inv.out_A, m_t |-> inv.out_b]

\* Lines 216-219, with the result cho of cho_factor(Q_tilde).
RefFromFactor(cho, r_tilde, S_tilde, m_tilde) ==
  IF cho.info # 0 THEN [status |-> NotPosDef, S_t |-> None, m_t |-> None]
  ELSE IF S_tilde = None \/ m_tilde = None
  THEN RefFromInverse(invert_normal_params(
         [A |-> [val |-> cho.a, layout |-> "F"], b |-> r_tilde,
          bufA |-> NoMat, bufB |-> None, newA |-> NoMat, newb |-> None],
         "None", "None", TRUE))
  ELSE [status |-> "returned", S_t |-> S_tilde, m_t |-> m_tilde]

\* Lines 215-219: the moment parameters the call works with.
RefMoments(Q_tilde, r_tilde, S_tilde, m_tilde, has_ldet) ==
  IF NeedCho(S_tilde, m_tilde, has_ldet)
  THEN RefFromFactor(Potrf(Q_tilde, 1), r_tilde, S_tilde, m_tilde)
  ELSE [status |-> "returned", S_t |-> S_tilde, m_t |-> m_tilde]

\* Lines 232-233: the probability ratios.
Ratios(lr) == AsTuple([s \in 1..Len(lr) |-> Exp(lr[s])])

\* Lines 237-243: the estimates from the samples alone; samp is centred in
\* place.
Fallback(samp, ret_a) ==
  LET cen == SubRow(samp, ColMeans(samp))
  IN  [samp |-> cen, status |-> "returned", path |-> "fallback",
       S_hat |-> MatMul(Transpose(cen), cen), m_hat |-> ColMeans(samp),
       a_S |-> IF ret_a THEN <<<<Zero>>>> ELSE None,
       a_m |-> IF ret_a THEN <<<<Zero>>>> ELSE None,
       a_scalar |-> ret_a, a_S_raw |-> None, a_m_raw |-> None,
       d2 |-> 0, len_d2vec |-> 0, cols_hc |-> 0, cols_f |-> 0]

\* Lines 249-250: hc of the mean.
MeanControl(samp, pr, m_t) ==
  AsTuple([s \in 1..Len(samp) |-> AsTuple([j \in 1..NCols(samp) |->
    QSub(QMul(samp[s][j], pr[s]), m_t[j])])])

\* Lines 270-274: hc of the covariance, d2vec holding the packed S_tilde.
CovControl(samp, pr, m_t, d2vec, d2) ==
  LET outer_t == auto_outer(SubRow(samp, m_t), d2)
  IN  AsTuple([s \in 1..Len(samp) |-> AsTuple([k \in 1..d2 |->
        QSub(QMul(outer_t[s][k], pr[s]), d2vec[k])])])

\* Lines 284-293: the estimates of the control-variate path.
CvResult(samp, em, es, d2, len_d2vec, cols_hc, cols_f, ret_a) ==
  IF es.status # "returned" THEN CvRaised(samp, es.status)
  ELSE [samp |-> samp, status |-> "returned", path |-> "cv",
        S_hat |-> unravel_triu(es.out, NCols(samp)), m_hat |-> em.out,
        a_S |-> IF ret_a THEN es.a ELSE None,
        a_m |-> IF ret_a THEN em.a ELSE None,
        a_scalar |-> FALSE, a_S_raw |-> es.a_raw, a_m_raw |-> em.a_raw,
        d2 |-> d2, len_d2vec |-> len_d2vec, cols_hc |-> cols_hc,
        cols_f |-> cols_f]

\* Line 283, with the arrays of the covariance regression.
CvWithCov(samp, em, d2, d2vec, hc, f, opt, ret_a) ==
  CvResult(samp, em, _cv_estim(f, hc, FALSE, opt, 0), d2, Len(d2vec),
           NCols(hc), NCols(f), ret_a)

\* Lines 254-293, with the result em of the mean regression.
CvWithMean(samp, pr, ref, em, d2, opt, ret_a) ==
  IF em.status # "returned" THEN CvRaised(samp, em.status)
  ELSE LET d2vec == ravel_triu(Transpose(ref.S_t), d2)
       IN  CvWithCov(samp, em, d2, d2vec,
                     CovControl(samp, pr, ref.m_t, d2vec, d2),
                     auto_outer(SubRow(samp, em.out), d2), opt, ret_a)

\* Lines 231-293, with the moment parameters ref and the ratios pr.
CvWithRef(samp, pr, ref, opt, ret_a) ==
  IF ref.status # "returned" THEN CvRaised(samp, ref.status)
  ELSE IF AllBelowEps(pr) THEN Fallback(samp, ret_a)
  ELSE CvWithMean(samp, pr, ref,
                  _cv_estim(samp, MeanControl(samp, pr, ref.m_t), TRUE, opt, 0),
                  D2(NCols(samp)), opt, ret_a)

\* cv_moments(samp, lp, Q_tilde, r_tilde, S_tilde, m_tilde, ldet_Q_tilde,
\* multiple_cv, regulate_a, max_a, ret_a=ret_a).  lr[s] stands for lp: it is
\* lp_tilde[s] - lp[s] in units of ln 2; has_ldet tells whether ldet_Q_tilde
\* was supplied.  samp is the caller's sample array after the call.
cv_moments(samp, lr, Q_tilde, r_tilde, S_tilde, m_tilde, has_ldet, opt, ret_a) ==
  CvWithRef(samp, Ratios(lr),
            RefMoments(Q_tilde, r_tilde, S_tilde, m_tilde, has_ldet),
            opt, ret_a)

(***************************************************************************)
(* Calls of cv_moments.                                                    *)
(***************************************************************************)
MaxN == 3

\* Sample rows of dimension d.
Rows(d) ==
  {AsTuple([j \in 1..d |-> I(IF j = 1 THEN v ELSE 1 - v)]) : v \in {0, 1}}

\* Log-density differences (lp_tilde - lp) / ln 2: one far below the
\* underflow of exp, and 0.
LogRatios == {-1080, 0}

\* Reference precision matrices: positive definite ones and others.
QTildes(d) ==
  IF d = 1 THEN {<<<<I(1)>>>>, <<<<I(0)>>>>}
  ELSE IF d = 2
       THEN {Identity(2), <<<<I(25), I(-3)>>, <<I(-3), I(1)>>>>,
             <<<<I(1), I(4)>>, <<I(4), I(1)>>>>}
  ELSE {Identity(d)}

RTildes(d) == {AsTuple([j \in 1..d |-> I(v)]) : v \in {0, 1}}

RegulateVals == {None, <<Zero>>, <<Q(1, 2)>>, <<One>>}

MaxAVals == {None, <<Q(1, 2)>>}

\* The moment parameters a caller supplies for (Q_tilde, r_tilde).
SuppliedS(Q_tilde) ==
  IF IsPosDef(Q_tilde) THEN Inverse(Q_tilde) ELSE Identity(Len(Q_tilde))

SuppliedM(Q_tilde, r_tilde) == MatVec(SuppliedS(Q_tilde), r_tilde)

RefNames == {"S_tilde", "m_tilde", "ldet_Q_tilde"}

CvArgs(lr, Q_tilde, r_tilde, sup, multiple_cv, regulate_a, max_a, ret_a) ==
  [fn |-> "cv_moments", lr |-> lr, Q_tilde |-> Q_tilde, r_tilde |-> r_tilde,
   S_tilde |-> IF "S_tilde" \in sup THEN SuppliedS(Q_tilde) ELSE None,
   m_tilde |-> IF "m_tilde" \in sup THEN SuppliedM(Q_tilde, r_tilde) ELSE None,
   has_ldet |-> "ldet_Q_tilde" \in sup,
   opt |-> [multiple_cv |-> multiple_cv, regulate_a |-> regulate_a,
            max_a |-> max_a],
   ret_a |-> ret_a]

NoRetCv == [x \in {"status"} |-> "none"]

\* The regression options are varied with the reference arguments all
\* omitted and positive definite.
InitCv ==
  \E d \in Dims, n \in 1..MaxN :
    \E samp \in [1..n -> Rows(d)], lr \in [1..n -> LogRatios],
       Q_tilde \in {M \in QTildes(d) : IsPosDef(M)}, r_tilde \in RTildes(d),
       multiple_cv \in BOOLEAN, regulate_a \in RegulateVals,
       max_a \in MaxAVals, ret_a \in BOOLEAN :
      /\ \/ regulate_a = None /\ max_a = None
         \/ Q_tilde = Identity(d) /\ r_tilde[1] = Zero
      /\ pc = "start"
      /\ args = CvArgs(lr, Q_tilde, r_tilde, {}, multiple_cv, regulate_a,
                       max_a, ret_a)
      /\ heap = [samp |-> samp]
      /\ pre = heap
      /\ ret = NoRetCv

\* One call of cv_moments.
CvMoments ==
  /\ pc = "start"
  /\ args.fn = "cv_moments"
  /\ \E r \in {cv_moments(heap.samp, args.lr, args.Q_tilde, args.r_tilde,
                            args.S_tilde, args.m_tilde, args.has_ldet,
                            args.opt, args.ret_a)} :
         /\ heap' = [samp |-> r.samp]
         /\ ret' = [f \in (DOMAIN r) \ {"samp"} |-> r[f]]
  /\ pc' = "done"
  /\ UNCHANGED <<args, pre>>

NextCv == CvMoments

SpecCv == InitCv /\ [][NextCv]_vars

\* The reference arguments (Q_tilde, r_tilde and which of S_tilde, m_tilde,
\* ldet_Q_tilde are supplied) are varied with the default options and one
\* log-density difference for all samples.
InitRef ==
  \E d \in Dims, n \in 1..MaxN :
    \E samp \in [1..n -> Rows(d)], l \in LogRatios, Q_tilde \in QTildes(d),
       r_tilde \in RTildes(d), sup \in SUBSET RefNames,
       multiple_cv \in BOOLEAN :
      /\ pc = "start"
      /\ args = CvArgs(AsTuple([s \in 1..n |-> l]), Q_tilde, r_tilde, sup,
                       multiple_cv, None, None, FALSE)
      /\ heap = [samp |-> samp]
      /\ pre = heap
      /\ ret = NoRetCv

\* Calls of both routines, on positive definite and other matrices.
InitPD == InitRef \/ InitInv

NextPD == CvMoments \/ Invert

SpecPD == InitPD /\ [][NextPD]_vars

\* Calls in dimensions up to MaxDim, with the identity as Q_tilde.
MaxDim == 4

InitPack ==
  \E d \in 1..MaxDim, n \in 1..MaxN :
    \E samp \in [1..n -> Rows(d)], lr \in [1..n -> LogRatios],
       multiple_cv \in BOOLEAN :
      /\ pc = "start"
      /\ args = CvArgs(lr, Identity(d), AsTuple([j \in 1..d |-> Zero]), {},
                       multiple_cv, None, None, TRUE)
      /\ heap = [samp |-> samp]
      /\ pre = heap
      /\ ret = NoRetCv

SpecPack == InitPack /\ [][NextCv]_vars

(***************************************************************************)
(* Direct calls of _cv_estim.                                              *)
(***************************************************************************)
HcVals == {Zero, One}

InitEstim ==
  \E k \in Dims, n \in 1..MaxN :
    \E f \in [1..n -> Rows(k)], hc \in [1..n -> [1..k -> HcVals]],
       multiple_cv \in BOOLEAN, divide_f_hat \in BOOLEAN :
      /\ pc = "start"
      /\ args = [fn |-> "_cv_estim", divide_f_hat |-> divide_f_hat,
                 opt |-> [multiple_cv |-> multiple_cv, regulate_a |-> None,
                          max_a |-> None],
                 ddof_f |-> 0]
      /\ heap = [f |-> f, hc |-> AsTuple([s \in 1..n |-> AsTuple(hc[s])])]
      /\ pre = heap
      /\ ret = NoRetCv

\* One call of _cv_estim.
CvEstim ==
  /\ pc = "start"
  /\ args.fn = "_cv_estim"
  /\ \E r \in {_cv_estim(heap.f, heap.hc, args.divide_f_hat, args.opt,
                         args.ddof_f)} :
       ret' = r
  /\ pc' = "done"
  /\ UNCHANGED <<args, heap, pre>>

NextEstim == CvEstim

SpecEstim == InitEstim /\ [][NextEstim]_vars

(***************************************************************************)
(* Properties of invert_normal_params.                                     *)
(***************************************************************************)
\* The layout check of lines 74-78 rejects the matrix the call works on.
LayoutRejected ==
  /\ Len(pre.A.val) > 1
  /\ \/ args.out_A = "in_place" /\ pre.A.layout = "N"
     \/ args.out_A = "buffer" /\ pre.bufA.layout = "N"

\* C4: for a symmetric positive-definite A (cho_form=False) the call returns
\* (A^-1, A^-1 b), which for d = 1 is ([[1/s]], [m/s]); handing that pair to
\* invert_normal_params again returns the original (A, b).
C4_RoundTrip ==
  /\ (pc = "done" /\ ~args.cho_form /\ IsPosDef(pre.A.val) /\ ~LayoutRejected)
       => /\ ret.status = "returned"
          /\ ret.out_A = Inverse(pre.A.val)
          /\ ret.out_b = (IF pre.b = None THEN None
                          ELSE MatVec(Inverse(pre.A.val), pre.b))
          /\ Len(pre.A.val) = 1
               => /\ ret.out_A[1][1] = QDiv(One, pre.A.val[1][1])
                  /\ pre.b # None
                       => ret.out_b[1] = QDiv(pre.b[1], pre.A.val[1][1])
  /\ pc = "again"
       => /\ ret.status = "returned"
          /\ ret.out_A = pre.A.val
          /\ ret.out_b = pre.b

C4_Witness ==
  /\ pc = "again"
  /\ Len(pre.A.val) = 2
  /\ pre.A.val[1][2] # Zero
  /\ pre.b # None
  /\ ret.status = "returned"
  /\ ret.out_A = pre.A.val

\* C5: A is modified only when out_A is 'in_place' and b only when out_b is
\* 'in_place', whether the call returns or raises; with None the result is a
\* newly allocated array, with a buffer it is written into the buffer.
C5_OutputPlacement ==
  pc = "done"
    => /\ args.out_A # "in_place" => heap.A = pre.A
       /\ args.out_b # "in_place" => heap.b = pre.b
       /\ ret.status = "returned"
            => /\ args.out_A = "None"
                    => ret.loc_A = "newA" /\ heap.newA.val = ret.out_A
               /\ args.out_A = "buffer"
                    => ret.loc_A = "bufA" /\ heap.bufA.val = ret.out_A
               /\ (pre.b # None /\ args.out_b = "None")
                    => ret.loc_b = "newb" /\ heap.newb = ret.out_b
               /\ (pre.b # None /\ args.out_b = "buffer")
                    => ret.loc_b = "bufB" /\ heap.bufB = ret.out_b

C5_Witness ==
  /\ pc = "done"
  /\ ret.status = "returned"
  /\ args.out_A = "buffer"
  /\ args.out_b = "in_place"
  /\ heap.A = pre.A
  /\ heap.bufA.val # pre.bufA.val
  /\ heap.b # pre.b

\* C7 as stated: when the invalid-layout error is raised no routine has run
\* and none of A, b, the out_A buffer and the out_b buffer has been written.
C7_Original ==
  ret.status = "ValueError"
    => /\ ret.ran = <<>>
       /\ heap.A = pre.A
       /\ heap.b = pre.b
       /\ heap.bufA = pre.bufA
       /\ heap.bufB = pre.bufB

\* C7 amended: when the invalid-layout error is raised no factorization or
\* solve has run and A, b and the out_b buffer are untouched, but a
\* caller-supplied out_A buffer already holds a copy of A; with out_A=None
\* the error is not raised at all.
C7_LayoutRejection ==
  ret.status = "ValueError"
    => /\ ret.ran = <<>>
       /\ heap.A = pre.A
       /\ heap.b = pre.b
       /\ heap.bufB = pre.bufB
       /\ heap.newb = None
       /\ args.out_A # "None"
       /\ args.out_A = "in_place" => heap.bufA = pre.bufA
       /\ args.out_A = "buffer"
            => heap.bufA = [val |-> pre.A.val, layout |-> pre.bufA.layout]

C7_Witness ==
  /\ ret.status = "ValueError"
  /\ args.out_A = "buffer"
  /\ args.out_b = "buffer"
  /\ pre.b # None
  /\ heap.bufA.val = pre.A.val
  /\ heap.bufB = pre.bufB

(***************************************************************************)
(* Properties of cv_moments and _cv_estim.                                 *)
(***************************************************************************)
\* Every importance ratio exp(lp_tilde - lp) is below 2^-EpsBits.
Degenerate == \A s \in 1..Len(args.lr) : args.lr[s] < -EpsBits

ColSum(X, j) == SumSeq(AsTuple([s \in 1..Len(X) |-> X[s][j]]))

\* The plain sample mean of the rows of X.
SampleMean(X) == AsTuple([j \in 1..NCols(X) |-> QDiv(ColSum(X, j), I(Len(X)))])

\* sum_s (x_s - m)(x_s - m)^T.
Scatter(X, m) ==
  AsTuple([i \in 1..NCols(X) |-> AsTuple([j \in 1..NCols(X) |->
    SumSeq(AsTuple([s \in 1..Len(X) |->
      QMul(QSub(X[s][i], m[i]), QSub(X[s][j], m[j]))]))])])

ScaleMat(M, c) ==
  AsTuple([i \in 1..Len(M) |->
    AsTuple([j \in 1..Len(M[i]) |-> QMul(c, M[i][j])])])

IsZeroMat(M) == \A i \in 1..Len(M) : \A j \in 1..Len(M[i]) : M[i][j] = Zero

AllWithin(a, c) ==
  \A i \in 1..Len(a) : \A j \in 1..Len(a[i]) : QLe(QAbs(a[i][j]), c)

\* C2: a non-degenerate call with max_a = c > 0 and ret_a completes (unless
\* the regression system is singular) and every returned coefficient is at
\* most c in absolute value.
C2_Clamping ==
  (/\ pc = "done"
   /\ ~Degenerate
   /\ args.ret_a
   /\ args.opt.max_a # None
   /\ QLt(Zero, args.opt.max_a[1])
   /\ ret.status # Singular)
    => /\ ret.status = "returned"
       /\ AllWithin(ret.a_S, args.opt.max_a[1])
       /\ AllWithin(ret.a_m, args.opt.max_a[1])

\* The coefficients the claim expects from the raw ones.
Regulated(raw, opt) ==
  LET m == IF opt.regulate_a = None THEN raw
           ELSE ScaleMat(raw, opt.regulate_a[1])
  IN  IF opt.max_a = None THEN m
      ELSE AsTuple([i \in 1..Len(m) |-> AsTuple([j \in 1..Len(m[i]) |->
             IF QLt(opt.max_a[1], m[i][j]) THEN opt.max_a[1]
             ELSE IF QLt(m[i][j], QNeg(opt.max_a[1])) THEN QNeg(opt.max_a[1])
             ELSE m[i][j]])])

\* C3: every returned coefficient is the raw coefficient multiplied by
\* regulate_a (by 1 when regulate_a is None), then clamped by max_a.
C3_Regularisation ==
  (pc = "done" /\ ~Degenerate /\ args.ret_a /\ ret.status = "returned")
    => /\ ret.a_m = Regulated(ret.a_m_raw, args.opt)
       /\ ret.a_S = Regulated(ret.a_S_raw, args.opt)

\* C6 as stated: a Q_tilde that is not positive definite makes cv_moments
\* fail with the not-positive-definite error whatever optional arguments
\* are supplied, and so does invert_normal_params with cho_form=False.
C6_Original ==
  /\ (pc = "done" /\ args.fn = "cv_moments" /\ ~IsPosDef(args.Q_tilde))
       => ret.status = NotPosDef
  /\ (/\ pc = "done"
      /\ args.fn = "invert_normal_params"
      /\ ~args.cho_form
      /\ ~IsPosDef(pre.A.val)
      /\ ~LayoutRejected)
       => ret.status = NotPosDef

\* C6 amended: a Q_tilde that is not positive definite makes cv_moments
\* fail with the not-positive-definite error and return no estimate
\* whenever at least one of S_tilde, m_tilde, ldet_Q_tilde is omitted; when
\* all three are supplied Q_tilde is not factorized and that error is not
\* raised.  invert_normal_params with cho_form=False fails with that error
\* on a matrix whose layout it accepts.
C6_NotPosDef ==
  /\ (pc = "done" /\ args.fn = "cv_moments" /\ ~IsPosDef(args.Q_tilde))
       => IF args.S_tilde = None \/ args.m_tilde = None \/ ~args.has_ldet
          THEN ret.status = NotPosDef /\ ret.S_hat = None /\ ret.m_hat = None
          ELSE ret.status # NotPosDef
  /\ (/\ pc = "done"
      /\ args.fn = "invert_normal_params"
      /\ ~args.cho_form
      /\ ~IsPosDef(pre.A.val)
      /\ ~LayoutRejected)
       => ret.status = NotPosDef /\ ret.out_A = None /\ ret.out_b = None

C6_Witness ==
  /\ pc = "done"
  /\ args.fn = "cv_moments"
  /\ ~IsPosDef(args.Q_tilde)
  /\ args.S_tilde # None
  /\ args.m_tilde # None
  /\ ~args.has_ldet
  /\ ret.status = NotPosDef

\* C8: in single mode a column of hc whose sum of squares is zero gets the
\* coefficient 0, and its estimate is finite (the plain average of the
\* column of f when divide_f_hat).
C8_ZeroGuard ==
  (/\ pc = "done"
   /\ ~args.opt.multiple_cv
   /\ Len(pre.hc) >= 2
   /\ ret.status = "returned")
    => \A j \in 1..NCols(pre.hc) :
         SumSeq(AsTuple([s \in 1..Len(pre.hc) |->
                          QMul(pre.hc[s][j], pre.hc[s][j])])) = Zero
           => /\ ret.a[1][j] = Zero
              /\ IsFinite(ret.out[j])
              /\ args.divide_f_hat => ret.out[j] = SampleMean(pre.f)[j]

\* The reference moments the call works with.
RefS ==
  IF args.S_tilde = None \/ args.m_tilde = None
  THEN Inverse(args.Q_tilde) ELSE args.S_tilde

RefM ==
  IF args.S_tilde = None \/ args.m_tilde = None
  THEN MatVec(Inverse(args.Q_tilde), args.r_tilde) ELSE args.m_tilde

TriLen(d) == (d * (d + 1)) \div 2

\* The control statistic of the mean, and the statistics of the covariance.
HcMean ==
  AsTuple([s \in 1..Len(pre.samp) |-> AsTuple([j \in 1..NCols(pre.samp) |->
    QSub(QMul(pre.samp[s][j], Exp(args.lr[s])), RefM[j])])])

HcCov ==
  LET d  == NCols(pre.samp)
      o  == auto_outer(SubRow(pre.samp, RefM), TriLen(d))
      pS == ravel_triu(RefS, TriLen(d))
  IN  AsTuple([s \in 1..Len(pre.samp) |-> AsTuple([k \in 1..TriLen(d) |->
        QSub(QMul(o[s][k], Exp(args.lr[s])), pS[k])])])

FCov == auto_outer(SubRow(pre.samp, ret.m_hat), TriLen(NCols(pre.samp)))

\* The column sums of f - a*hc.
CorrectedSum(f, hc, a) ==
  LET fh == FHat(hc, a, args.opt.multiple_cv)
  IN  AsTuple([j \in 1..NCols(f) |->
        SumSeq(AsTuple([s \in 1..Len(f) |-> QSub(f[s][j], fh[s][j])]))])

DivVec(v, c) == AsTuple([j \in 1..Len(v) |-> QDiv(v[j], c)])

C10_PackedLength ==
  (pc = "done" /\ ret.status = "returned" /\ ret.path = "cv")
    => LET d == NCols(pre.samp)
       IN  /\ 2 * ret.d2 = d * (d + 1)
           /\ ret.d2 = Len(TriPairs(d))
           /\ ret.len_d2vec = ret.d2
           /\ ret.cols_hc = ret.d2
           /\ ret.cols_f = ret.d2
           /\ d = 3 => ret.d2 = 6
           /\ d = 4 => ret.d2 = 10

C10_Witness ==
  /\ pc = "done"
  /\ ret.status = "returned"
  /\ ret.path = "cv"
  /\ NCols(pre.samp) = 4
  /\ ret.cols_f = 10

====
